---- MODULE Spec2Model ----
(***************************************************************************)
(* Model of react-css-themr (src/src/components/themr.ts): the themr       *)
(* decorator, the Themed wrapper's theme resolution and cache, and the     *)
(* merge / themeable functions.                                            *)
(*                                                                         *)
(* JavaScript values are tagged records whose "kind" is what typeof        *)
(* yields: "undefined", "string", "object", "function".  A string is a     *)
(* sequence of one-character strings, so that split, startsWith, substr    *)
(* and toLowerCase are computed character by character.  An object is a    *)
(* function from its own keys (character sequences) to values.  A call     *)
(* yields a completion: Normal(value) or Throw(error).                     *)
(***************************************************************************)
EXTENDS Integers, Sequences, FiniteSets, TLC

VARIABLES original, mixin, extra, out, pc,
          classes, lastDecorate, status, cls, context, props, theme_,
          lastCall, changed, recalc

mvars == <<original, mixin, extra, out, pc>>
cvars == <<classes, lastDecorate, status, cls, context, props, theme_,
           lastCall, changed, recalc>>
vars == <<original, mixin, extra, out, pc,
          classes, lastDecorate, status, cls, context, props, theme_,
          lastCall, changed, recalc>>

(***************************************************************************)
(* Bounds                                                                  *)
(***************************************************************************)
MaxStrLen == 3
MaxDepth == 3
MaxClasses == 2

(***************************************************************************)
(* JavaScript values and completions                                       *)
(***************************************************************************)
Undef == [kind |-> "undefined"]
Fn == [kind |-> "function"]
Str(s) == [kind |-> "string", s |-> s]
Obj(o) == [kind |-> "object", o |-> o]
EmptyObj == [k \in {} |-> Undef]

Normal(v) == [type |-> "normal", value |-> v]
Throw(e) == [type |-> "throw", error |-> e]

\* obj[key] of JavaScript: undefined when the object has no such own key
Get(o, k) == IF k \in DOMAIN o THEN o[k] ELSE Undef

\* ToBoolean of a value: undefined and '' are falsy, objects and functions truthy
Truthy(v) ==
  CASE v.kind = "undefined" -> FALSE
    [] v.kind = "string" -> v.s # <<>>
    [] OTHER -> TRUE

(***************************************************************************)
(* String helpers: String.prototype.split(' '), Array.prototype.join(' '), *)
(* and the filter((item, pos, self) => self.indexOf(item) === pos &&       *)
(* item !== '') of merge.                                                  *)
(***************************************************************************)
RECURSIVE SplitFrom(_, _, _)
\* cur is the piece being read; i the next position of s
SplitFrom(s, i, cur) ==
  IF i > Len(s) THEN <<cur>>
  ELSE IF s[i] = " " THEN <<cur>> \o SplitFrom(s, i + 1, <<>>)
  ELSE SplitFrom(s, i + 1, Append(cur, s[i]))

Split(s) == SplitFrom(s, 1, <<>>)

RECURSIVE Join(_)
Join(items) ==
  IF Len(items) = 0 THEN <<>>
  ELSE IF Len(items) = 1 THEN items[1]
  ELSE items[1] \o <<" ">> \o Join(Tail(items))

\* self.indexOf(item): the first position holding item
IndexOf(self, item) == CHOOSE i \in 1..Len(self) :
                         /\ self[i] = item
                         /\ \A j \in 1..(i - 1) : self[j] # item

FilterUnique(self) ==
  SelectSeq([pos \in 1..Len(self) |-> [item |-> self[pos], pos |-> pos]],
            LAMBDA e : IndexOf(self, e.item) = e.pos /\ e.item # <<>>)

MergeTokensNoDedupe(a, b) ==
  Join(SelectSeq(Split(a) \o Split(b), LAMBDA item : item # <<>>))

\* the scalar/scalar case of merge
MergeTokens(a, b) ==
  LET kept == FilterUnique(Split(a) \o Split(b))
  IN Join([i \in 1..Len(kept) |-> kept[i].item])


(***************************************************************************)
(* merge(original = {}, mixin = {})                                        *)
(***************************************************************************)
Skip == [type |-> "skip"]
Set(v) == [type |-> "set", value |-> v]

\* the copy of original made before the mixin is traversed
CloneWithoutFunctions(o) ==
  [key \in {k \in DOMAIN o : o[k].kind # "function"} |-> o[key]]

MixinScalarNoConflict(originalValue, mixinValue) ==
  CASE originalValue.kind = "object" -> Set(mixinValue)
    [] originalValue.kind = "undefined" -> Set(mixinValue)
    [] originalValue.kind = "function" -> Skip
    [] OTHER -> Set(Str(MergeTokens(originalValue.s, mixinValue.s)))

\* the default case of switch (typeof mixinValue): a plain value
MixinScalar(originalValue, mixinValue) ==
  CASE originalValue.kind = "object" -> Throw("MergeConflict")
    [] originalValue.kind = "undefined" -> Set(mixinValue)
    [] originalValue.kind = "function" -> Skip
    [] OTHER -> Set(Str(MergeTokens(originalValue.s, mixinValue.s)))

RECURSIVE merge(_, _)
\* what the body of the forEach does for one key of mixin
MergeKey(result, mix, key) ==
  LET originalValue == Get(result, key)
      mixinValue == mix[key]
  IN CASE mixinValue.kind = "object" ->
            ( CASE originalValue.kind = "object" ->
                     LET r == merge(originalValue, mixinValue)
                     IN IF r.type = "throw" THEN r ELSE Set(r.value)
                [] originalValue.kind = "undefined" -> Set(mixinValue)
                [] OTHER -> Throw("MergeConflict") )
       [] mixinValue.kind \in {"undefined", "function"} -> Skip
       [] OTHER -> MixinScalar(originalValue, mixinValue)

merge(originalArg, mixinArg) ==
  LET orig == IF originalArg.kind = "undefined" THEN EmptyObj ELSE originalArg.o
      mix == IF mixinArg.kind = "undefined" THEN EmptyObj ELSE mixinArg.o
      result == CloneWithoutFunctions(orig)
      done == [key \in DOMAIN mix |-> MergeKey(result, mix, key)]
      written == {key \in DOMAIN mix : done[key].type = "set"}
  IN IF \E key \in DOMAIN mix : done[key].type = "throw"
     THEN Throw("MergeConflict")
     ELSE Normal(Obj([key \in (DOMAIN result) \cup written |->
                        IF key \in written THEN done[key].value
                        ELSE result[key]]))

RECURSIVE Reduce(_, _, _)
\* themes.reduce((acc, theme) => merge(acc, theme), {}) from position i on
Reduce(acc, themes, i) ==
  IF i > Len(themes) THEN Normal(acc)
  ELSE LET r == merge(acc, themes[i])
       IN IF r.type = "throw" THEN r ELSE Reduce(r.value, themes, i + 1)

themeable(themes) == Reduce(Obj(EmptyObj), themes, 1)

(***************************************************************************)
(* themr(identifier, localTheme, options)(Target)                          *)
(***************************************************************************)
COMPOSE_DEEPLY == "deeply"
COMPOSE_SOFTLY == "softly"
\* the boolean false of the composeTheme option
DONT_COMPOSE == "false"

DEFAULT_OPTIONS == [composeTheme |-> COMPOSE_DEEPLY]

\* ToBoolean of a composeTheme value: only false is falsy
ComposeTruthy(composeTheme) == composeTheme # DONT_COMPOSE

validateComposeOption(composeTheme) ==
  IF composeTheme \notin {COMPOSE_DEEPLY, COMPOSE_SOFTLY, DONT_COMPOSE}
  THEN Throw("InvalidConfiguration")
  ELSE Normal(Undef)

\* the key a value is converted to when it indexes an object
PropertyKey(v) ==
  IF v.kind = "undefined" THEN <<"u", "n", "d", "e", "f", "i", "n", "e", "d">>
  ELSE v.s

\* the configuration record a new wrapper is tagged with
NewConfig(identifier, localTheme) ==
  [identifier |-> identifier, localTheme |-> localTheme]

\* Target[THEMR_CONFIG]: undefined for a component that is not a wrapper
ConfigOf(cs, Target) == IF Target = 0 THEN Undef ELSE Obj(cs[Target].config)

\* config && config.componentName === identifier
IsRedecoration(config, identifier) ==
  /\ Truthy(config)
  /\ Get(config.o, "componentName") = identifier

(***************************************************************************)
(* Themed: theme resolution                                                *)
(***************************************************************************)
ToLowerCase(c) ==
  CASE c = "X" -> "x"
    [] c = "Y" -> "y"
    [] c = "F" -> "f"
    [] OTHER -> c

StartsWith(key, prefix) ==
  /\ Len(prefix) <= Len(key)
  /\ SubSeq(key, 1, Len(prefix)) = prefix

removeNamespace(key, themeNamespace) ==
  LET capitalized == SubSeq(key, Len(themeNamespace) + 1, Len(key))
  IN IF capitalized = <<>> THEN <<>>
     ELSE <<ToLowerCase(capitalized[1])>> \o Tail(capitalized)

\* Object.keys(theme).filter(startsWith).reduce(...): the themes supplied as
\* props hold no two keys that removeNamespace maps to one key
NamespaceFiltered(theme, ns) ==
  LET kept == {key \in DOMAIN theme : StartsWith(key, ns)}
  IN [nk \in {removeNamespace(key, ns) : key \in kept} |->
        theme[CHOOSE key \in kept : removeNamespace(key, ns) = nk]]

getNamespacedTheme(p) ==
  LET themeNamespace == p.themeNamespace
      theme == p.theme
  IN IF ~Truthy(themeNamespace) \/ ~Truthy(theme)
     THEN Normal(IF Truthy(theme) THEN theme ELSE Obj(EmptyObj))
     ELSE IF Truthy(themeNamespace) /\ ~Truthy(theme)
     THEN Throw("InvalidUsage")
     ELSE Normal(Obj(NamespaceFiltered(theme.o, themeNamespace.s)))

getContextTheme(ctx, config) ==
  IF Truthy(ctx.themr)
  THEN Get(ctx.themr.theme, PropertyKey(Get(config, "componentName")))
  ELSE Obj(EmptyObj)

\* { ...a, ...b, ...c }: own keys of each object in turn, later ones win
OwnKeys(v) == IF v.kind = "object" THEN DOMAIN v.o ELSE {}

Spread(a, b, c) ==
  [key \in OwnKeys(a) \cup OwnKeys(b) \cup OwnKeys(c) |->
     IF key \in OwnKeys(c) THEN c.o[key]
     ELSE IF key \in OwnKeys(b) THEN b.o[key]
     ELSE a.o[key]]

getTheme(p, ctx, config) ==
  LET namespaced == getNamespacedTheme(p)
  IN IF namespaced.type = "throw" THEN namespaced
     ELSE IF p.composeTheme = COMPOSE_DEEPLY
     THEN Normal(Obj(Spread(getContextTheme(ctx, config), config.localTheme,
                            namespaced.value)))
     ELSE themeable(<<getContextTheme(ctx, config), config.localTheme,
                      namespaced.value>>)

getThemeNotComposedLocalFirst(p, ctx, config) ==
  IF Truthy(config.localTheme) THEN Normal(config.localTheme)
  ELSE IF Truthy(p.theme) THEN getNamespacedTheme(p)
  ELSE Normal(getContextTheme(ctx, config))

getThemeNotComposed(p, ctx, config) ==
  IF Truthy(p.theme) THEN getNamespacedTheme(p)
  ELSE IF Truthy(config.localTheme) THEN Normal(config.localTheme)
  ELSE Normal(getContextTheme(ctx, config))

calcTheme(p, ctx, config) ==
  IF ComposeTruthy(p.composeTheme)
  THEN getTheme(p, ctx, config)
  ELSE getThemeNotComposed(p, ctx, config)

(***************************************************************************)
(* Inputs                                                                  *)
(***************************************************************************)
Chars == {"a", "b", " ", "\t"}

RECURSIVE StringsOfLen(_)
StringsOfLen(n) ==
  IF n = 0 THEN {<<>>}
  ELSE {Append(s, c) : s \in StringsOfLen(n - 1), c \in Chars}

Strings == UNION {StringsOfLen(n) : n \in 0..MaxStrLen}

Kx == <<"x">>
Ky == <<"y">>
Ka == <<"a">>
Kb == <<"b">>
KfX == <<"f", "X">>

\* themes of nesting depth at most MaxDepth, functions and unset values included
Leaves == {Str(<<"a">>), Str(<<"b">>), Fn, Undef}
TopKeys == {Kx, Ky}
InnerKeys == {Ka}

RECURSIVE ThemesOver(_, _)
ThemesOver(keys, depth) ==
  IF depth = 0 THEN {}
  ELSE LET values == Leaves \cup {Obj(t) : t \in ThemesOver(InnerKeys, depth - 1)}
       IN UNION {[ks -> values] : ks \in SUBSET keys}

MergeInputs == {Obj(t) : t \in ThemesOver(TopKeys, MaxDepth)}

ExtraThemes == { Undef,
                 Obj([k \in {Kx} |-> Str(<<"b">>)]),
                 Obj([k \in {Kx} |-> Obj([j \in {Ka} |-> Str(<<"b">>)])]) }

\* themes of the component model
ThemeXa == [k \in {Kx} |-> Obj([j \in {Ka} |-> Str(<<"a">>)])]
ThemeXb == [k \in {Kx} |-> Obj([j \in {Kb} |-> Str(<<"b">>)])]
ThemeSa == [k \in {Kx} |-> Str(<<"a">>)]
ThemeSb == [k \in {Kx} |-> Str(<<"b">>)]
ThemeNs == [k \in {KfX, Ky} |-> IF k = KfX THEN Str(<<"b">>) ELSE Str(<<"a">>)]

IdC == Str(<<"C">>)
IdD == Str(<<"D">>)
Identifiers == {IdC, IdD}
LocalThemes == {Undef, Obj(ThemeSa), Obj(ThemeXb)}
ComposeOptions == {COMPOSE_DEEPLY, COMPOSE_SOFTLY, DONT_COMPOSE, "loudly", "unset"}
Modes == {COMPOSE_DEEPLY, COMPOSE_SOFTLY, DONT_COMPOSE}

\* theme objects a parent passes as the theme prop; ref is the object's
\* identity: objects 1 and 2 are distinct objects with equal content
ObjRef(n, o) == [kind |-> "object", o |-> o, ref |-> n]
PropThemes == {Undef, ObjRef(1, ThemeSb), ObjRef(2, ThemeSb), ObjRef(3, ThemeNs)}
Namespaces == {Undef, Str(<<>>), Str(<<"f">>)}

\* this.context: no provider above, or a provider's { theme }
KUndefined == PropertyKey(Undef)
ProviderThemes ==
  { [k \in {IdC.s} |-> Obj(ThemeXa)],
    [k \in {IdC.s, IdD.s} |-> Obj(ThemeSa)],
    [k \in {IdC.s, KUndefined} |-> IF k = IdC.s THEN Obj(ThemeSa) ELSE Obj(ThemeXa)] }
Contexts == {[themr |-> Undef]}
            \cup {[themr |-> [kind |-> "object", theme |-> t]] : t \in ProviderThemes}

(***************************************************************************)
(* State                                                                   *)
(*   original, mixin, extra, out, pc : a call of merge or themeable        *)
(*   classes      : the wrappers themr has created, each with the target   *)
(*                  it wraps (0: a plain component), its THEMR_CONFIG and   *)
(*                  its defaultProps.composeTheme                           *)
(*   lastDecorate : the last call of themr(...)(Target): its arguments,    *)
(*                  the target's static theme and the number of wrappers   *)
(*                  before it, and its completion                          *)
(*   status, cls, context, props, theme_ : one Themed instance             *)
(*   lastCall     : the last call of calcTheme and its completion          *)
(*   changed, recalc : whether the last update changed one of the props   *)
(*                  composeTheme, theme, themeNamespace, and whether it    *)
(*                  called calcTheme                                       *)
(***************************************************************************)
NoProps == [composeTheme |-> COMPOSE_DEEPLY, theme |-> Undef, themeNamespace |-> Undef]
NoCall == [called |-> FALSE, props |-> NoProps, result |-> Normal(Undef)]
NoDecorate == [called |-> FALSE, Target |-> 0, identifier |-> IdC, localTheme |-> Undef,
               before |-> Undef, wrappers |-> 0, result |-> Normal(0)]

MergeIdle ==
  /\ original = Undef
  /\ mixin = Undef
  /\ extra = Undef
  /\ out = Normal(Undef)
  /\ pc = "idle"

InstanceIdle ==
  /\ status = "unmounted"
  /\ cls = 0
  /\ context = [themr |-> Undef]
  /\ props = NoProps
  /\ theme_ = Undef
  /\ lastCall = NoCall
  /\ changed = FALSE
  /\ recalc = FALSE

DecorateIdle ==
  /\ classes = <<>>
  /\ lastDecorate = NoDecorate

(***************************************************************************)
(* merge and themeable as operations                                       *)
(***************************************************************************)
DoMerge ==
  /\ pc = "start"
  /\ out' = merge(original, mixin)
  /\ pc' = "merged"
  /\ UNCHANGED <<original, mixin, extra>>
  /\ UNCHANGED cvars

DoThemeable ==
  /\ pc = "start"
  /\ \E e \in ExtraThemes :
       /\ extra' = e
       /\ out' = themeable(<<original, mixin, e>>)
  /\ pc' = "themed"
  /\ UNCHANGED <<original, mixin>>
  /\ UNCHANGED cvars

InitMerge ==
  /\ original \in MergeInputs
  /\ mixin \in MergeInputs
  /\ extra = Undef
  /\ out = Normal(Undef)
  /\ pc = "start"
  /\ DecorateIdle
  /\ InstanceIdle

NextMerge == DoMerge \/ DoThemeable

SpecMerge == InitMerge /\ [][NextMerge]_vars

\* two scalars under one key
InitTokens ==
  /\ \E a \in Strings, b \in Strings :
       /\ original = Obj([k \in {Kx} |-> Str(a)])
       /\ mixin = Obj([k \in {Kx} |-> Str(b)])
  /\ extra = Undef
  /\ out = Normal(Undef)
  /\ pc = "start"
  /\ DecorateIdle
  /\ InstanceIdle

NextTokens == DoMerge

SpecTokens == InitTokens /\ [][NextTokens]_vars

(***************************************************************************)
(* themr(identifier, localTheme, options)(Target)                          *)
(***************************************************************************)
Decorate(Target, identifier, localTheme, option) ==
  LET composeTheme == IF option = "unset" THEN DEFAULT_OPTIONS.composeTheme
                      ELSE option
      valid == validateComposeOption(composeTheme)
      config == ConfigOf(classes, Target)
      merged == merge(config.o.localTheme, localTheme)
      call == [called |-> TRUE, Target |-> Target, identifier |-> identifier,
               localTheme |-> localTheme,
               before |-> IF Target = 0 THEN Undef ELSE config.o.localTheme,
               wrappers |-> Len(classes),
               result |-> Normal(0)]
  IN IF valid.type = "throw"
     THEN /\ lastDecorate' = [call EXCEPT !.result = valid]
          /\ UNCHANGED classes
     ELSE IF IsRedecoration(config, identifier)
     THEN IF merged.type = "throw"
          THEN /\ lastDecorate' = [call EXCEPT !.result = merged]
               /\ UNCHANGED classes
          ELSE /\ classes' = [classes EXCEPT ![Target].config.localTheme = merged.value]
               /\ lastDecorate' = [call EXCEPT !.result = Normal(Target)]
     ELSE /\ classes' = Append(classes, [Target |-> Target,
                                         config |-> NewConfig(identifier, localTheme),
                                         composeTheme |-> composeTheme])
          /\ lastDecorate' = [call EXCEPT !.result = Normal(Len(classes) + 1)]

DecorateStep ==
  /\ Len(classes) < MaxClasses
  /\ \E Target \in 0..Len(classes), identifier \in Identifiers,
        localTheme \in LocalThemes, option \in ComposeOptions :
       Decorate(Target, identifier, localTheme, option)
  /\ UNCHANGED <<status, cls, context, props, theme_, lastCall, changed, recalc>>
  /\ UNCHANGED mvars

InitDecorate ==
  /\ MergeIdle
  /\ DecorateIdle
  /\ InstanceIdle

NextDecorate == DecorateStep

SpecDecorate == InitDecorate /\ [][NextDecorate]_vars

(***************************************************************************)
(* One Themed instance: componentWillMount, componentWillReceiveProps      *)
(***************************************************************************)
\* props as the instance sees them: defaultProps fill an omitted composeTheme
WithDefaults(given, class) ==
  [composeTheme |-> IF given.composeTheme = "unset" THEN class.composeTheme
                    ELSE given.composeTheme,
   theme |-> given.theme,
   themeNamespace |-> given.themeNamespace]

GivenProps == [composeTheme : Modes \cup {"unset"}, theme : PropThemes,
               themeNamespace : Namespaces]

ShouldRecalcIgnoringNamespace(nextProps, p) ==
  \/ nextProps.composeTheme # p.composeTheme
  \/ nextProps.theme # p.theme

\* the condition of componentWillReceiveProps
ShouldRecalc(nextProps, p) ==
  \/ nextProps.composeTheme # p.composeTheme
  \/ nextProps.theme # p.theme
  \/ nextProps.themeNamespace # p.themeNamespace

componentWillMount ==
  /\ status = "unmounted"
  /\ \E c \in 1..Len(classes), ctx \in Contexts, given \in GivenProps :
       LET p == WithDefaults(given, classes[c])
           r == calcTheme(p, ctx, classes[c].config)
       IN /\ cls' = c
          /\ context' = ctx
          /\ props' = p
          /\ lastCall' = [called |-> TRUE, props |-> p, result |-> r]
          /\ IF r.type = "throw"
             THEN /\ status' = "failed"
                  /\ UNCHANGED theme_
             ELSE /\ status' = "mounted"
                  /\ theme_' = r.value
  /\ UNCHANGED <<changed, recalc>>
  /\ UNCHANGED <<classes, lastDecorate>>
  /\ UNCHANGED mvars

componentWillReceiveProps ==
  /\ status = "mounted"
  /\ \E given \in GivenProps :
       LET nextProps == WithDefaults(given, classes[cls])
           r == calcTheme(nextProps, context, classes[cls].config)
       IN /\ changed' = ( \/ nextProps.composeTheme # props.composeTheme
                          \/ nextProps.theme # props.theme
                          \/ nextProps.themeNamespace # props.themeNamespace )
          /\ IF ShouldRecalc(nextProps, props)
             THEN /\ recalc' = TRUE
                  /\ lastCall' = [called |-> TRUE, props |-> nextProps, result |-> r]
                  /\ IF r.type = "throw"
                     THEN /\ status' = "failed"
                          /\ UNCHANGED <<theme_, props>>
                     ELSE /\ theme_' = r.value
                          /\ props' = nextProps
                          /\ UNCHANGED status
             ELSE /\ recalc' = FALSE
                  /\ props' = nextProps
                  /\ UNCHANGED <<theme_, lastCall, status>>
  /\ UNCHANGED <<cls, context>>
  /\ UNCHANGED <<classes, lastDecorate>>
  /\ UNCHANGED mvars

\* a component decorated once, not yet rendered
Init ==
  /\ MergeIdle
  /\ InstanceIdle
  /\ \E identifier \in Identifiers, localTheme \in LocalThemes, option \in Modes \cup {"unset"} :
       LET composeTheme == IF option = "unset" THEN DEFAULT_OPTIONS.composeTheme
                           ELSE option
       IN /\ classes = <<[Target |-> 0, config |-> NewConfig(identifier, localTheme),
                          composeTheme |-> composeTheme]>>
          /\ lastDecorate = [called |-> TRUE, Target |-> 0, identifier |-> identifier,
                             localTheme |-> localTheme, before |-> Undef,
                             wrappers |-> 0, result |-> Normal(1)]

Next == componentWillMount \/ componentWillReceiveProps

Spec == Init /\ [][Next]_vars

(***************************************************************************)
(* Properties of merge on two scalars (SpecTokens)                         *)
(***************************************************************************)
RECURSIVE TokensFrom(_, _, _, _)
\* the maximal runs of characters of s that are not in separators
TokensFrom(s, i, cur, separators) ==
  LET flushed == IF cur = <<>> THEN <<>> ELSE <<cur>>
  IN IF i > Len(s) THEN flushed
     ELSE IF s[i] \in separators
     THEN flushed \o TokensFrom(s, i + 1, <<>>, separators)
     ELSE TokensFrom(s, i + 1, Append(cur, s[i]), separators)

Tokens(s, separators) == TokensFrom(s, 1, <<>>, separators)

RECURSIVE FirstOccurrences(_, _)
\* items without the ones in seen, each kept where it first occurs
FirstOccurrences(items, seen) ==
  IF items = <<>> THEN <<>>
  ELSE IF items[1] \in seen THEN FirstOccurrences(Tail(items), seen)
  ELSE <<items[1]>> \o FirstOccurrences(Tail(items), seen \cup {items[1]})

RECURSIVE SingleSpaced(_)
SingleSpaced(items) ==
  IF items = <<>> THEN <<>>
  ELSE IF Len(items) = 1 THEN items[1]
  ELSE items[1] \o <<" ">> \o SingleSpaced(Tail(items))

Whitespace == {" ", "\t"}

\* the merged scalar holds, once each and single-spaced, the tokens of a in
\* first-occurrence order and then the tokens of b not yet present
TokenMergeHolds(separators) ==
  pc = "merged" =>
    LET a == original.o[Kx].s
        b == mixin.o[Kx].s
    IN /\ out.type = "normal"
       /\ out.value.o[Kx].kind = "string"
       /\ out.value.o[Kx].s =
            SingleSpaced(FirstOccurrences(Tokens(a, separators) \o Tokens(b, separators), {}))

\* C6 as stated: tokens are delimited by whitespace (space or tab); for all
\* scalars a and b under one key the merged scalar holds every non-empty token
\* of a and b exactly once, a's first, joined by single spaces
C6_WhitespaceTokens == TokenMergeHolds(Whitespace)

\* C6 amended: tokens are delimited by the space character only; for all
\* scalars a and b under one key the merged scalar holds every non-empty
\* space-delimited token of a and b exactly once, a's tokens in
\* first-occurrence order and then b's not yet present, joined by single
\* spaces, and two empty scalars give the empty string
C6_SpaceTokens == TokenMergeHolds({" "})

C6_Witness ==
  /\ pc = "merged"
  /\ original.o[Kx].s = <<"a", " ", "b">>
  /\ mixin.o[Kx].s = <<"b", " ", "a">>
  /\ out = Normal(Obj([k \in {Kx} |-> Str(<<"a", " ", "b">>)]))

(***************************************************************************)
(* Properties of merge and themeable (SpecMerge)                           *)
(***************************************************************************)
RECURSIVE KindClash(_, _)
\* some key path holds a nested mapping in one theme and a string in the other
KindClash(o, m) ==
  \E k \in (DOMAIN o) \cap (DOMAIN m) :
    \/ o[k].kind = "object" /\ m[k].kind = "string"
    \/ o[k].kind = "string" /\ m[k].kind = "object"
    \/ o[k].kind = "object" /\ m[k].kind = "object" /\ KindClash(o[k].o, m[k].o)

ThemeOf(v) == IF v.kind = "object" THEN v.o ELSE EmptyObj

\* C5: merge(original, mixin) throws MergeConflict, with no result, exactly
\* when some key path holds a mapping in one and a string in the other (in
\* either direction), and themeable over a sequence throws exactly when two
\* of its themes are such a pair
C5_MergeConflict ==
  /\ pc = "merged" =>
       IF KindClash(original.o, mixin.o)
       THEN out = Throw("MergeConflict")
       ELSE out.type = "normal"
  /\ pc = "themed" =>
       IF \/ KindClash(original.o, mixin.o)
          \/ KindClash(original.o, ThemeOf(extra))
          \/ KindClash(mixin.o, ThemeOf(extra))
       THEN out = Throw("MergeConflict")
       ELSE out.type = "normal"

\* a conflict below the top level, mapping into scalar
C5_Witness ==
  /\ pc = "merged"
  /\ out = Throw("MergeConflict")
  /\ Kx \in DOMAIN original.o /\ Kx \in DOMAIN mixin.o
  /\ original.o[Kx].kind = "object" /\ mixin.o[Kx].kind = "object"
  /\ Ka \in DOMAIN original.o[Kx].o /\ Ka \in DOMAIN mixin.o[Kx].o
  /\ original.o[Kx].o[Ka].kind = "string"
  /\ mixin.o[Kx].o[Ka].kind = "object"
  /\ ~(Ky \in DOMAIN mixin.o)

RECURSIVE HoldsFunction(_)
\* a function-typed value at a key of o or of a mapping nested in it
HoldsFunction(o) ==
  \E k \in DOMAIN o :
    \/ o[k].kind = "function"
    \/ o[k].kind = "object" /\ HoldsFunction(o[k].o)

\* C9: the result of merge and of themeable holds no function-typed value,
\* at the top level or nested, and a key whose mixin value is a function or
\* unset keeps the value original holds under it
C9_NoFunctionPropagated ==
  /\ (pc \in {"merged", "themed"} /\ out.type = "normal") =>
       ~HoldsFunction(out.value.o)
  /\ (pc = "merged" /\ out.type = "normal") =>
       \A k \in DOMAIN mixin.o :
         ( /\ mixin.o[k].kind \in {"function", "undefined"}
           /\ k \in DOMAIN original.o
           /\ original.o[k].kind # "function" )
         => (k \in DOMAIN out.value.o /\ out.value.o[k] = original.o[k])

(***************************************************************************)
(* Properties of theme resolution (Spec)                                   *)
(***************************************************************************)
\* the three sources of the last resolution: the ancestor theme the
\* instance reads from its context, the static theme of its configuration,
\* and the property theme after the namespace filter
AncestorOfCall == getContextTheme(context, classes[cls].config)
StaticOfCall == classes[cls].config.localTheme
NormalizedOfCall ==
  LET p == lastCall.props
  IN IF p.theme.kind = "undefined" THEN Obj(EmptyObj)
     ELSE IF Truthy(p.themeNamespace)
     THEN Obj(NamespaceFiltered(p.theme.o, p.themeNamespace.s))
     ELSE Obj(p.theme.o)

\* the namespace rule is met: no namespace without a property theme
NamespaceWellUsed(p) == ~(Truthy(p.themeNamespace) /\ p.theme.kind = "undefined")

MergeOfThree(A, S, P) ==
  LET first == merge(A, S)
  IN IF first.type = "throw" THEN first ELSE merge(first.value, P)

\* C1: in mode deeply the computed theme is merge(merge(A, S), P), the
\* recursive merge of the ancestor, static and normalized property themes
C1_DeepIsRecursiveMerge ==
  ( /\ lastCall.called
    /\ lastCall.props.composeTheme = COMPOSE_DEEPLY
    /\ NamespaceWellUsed(lastCall.props) )
  => lastCall.result = MergeOfThree(AncestorOfCall, StaticOfCall, NormalizedOfCall)

\* C2: in mode softly the computed theme is the top-level overwrite of the
\* ancestor theme by the static theme and then by the normalized property
\* theme, each key taken whole from the last source that defines it
C2_SoftIsShallowOverwrite ==
  ( /\ lastCall.called
    /\ lastCall.props.composeTheme = COMPOSE_SOFTLY
    /\ NamespaceWellUsed(lastCall.props) )
  => lastCall.result =
       Normal(Obj(Spread(AncestorOfCall, StaticOfCall, NormalizedOfCall)))

\* C3: with composition disabled the computed theme is exactly one source:
\* the (namespace-filtered) property theme if a property theme is given,
\* otherwise the static theme if there is one, otherwise the ancestor theme;
\* with no namespace it is the very object given as the theme property
C3_NoneSelectsOneSource ==
  ( /\ lastCall.called
    /\ lastCall.props.composeTheme = DONT_COMPOSE )
  => /\ lastCall.result.type = "normal"
     /\ IF lastCall.props.theme.kind # "undefined"
        THEN IF Truthy(lastCall.props.themeNamespace)
             THEN lastCall.result.value = NormalizedOfCall
             ELSE lastCall.result.value = lastCall.props.theme
        ELSE IF StaticOfCall.kind # "undefined"
        THEN lastCall.result.value = StaticOfCall
        ELSE lastCall.result.value = AncestorOfCall

\* all three sources present, no namespace: the property theme alone
C3_Witness ==
  /\ status = "mounted"
  /\ lastCall.called
  /\ props.composeTheme = DONT_COMPOSE
  /\ props.themeNamespace = Undef
  /\ props.theme = ObjRef(1, ThemeSb)
  /\ StaticOfCall = Obj(ThemeSa)
  /\ AncestorOfCall = Obj(ThemeXa)
  /\ theme_ = ObjRef(1, ThemeSb)

\* C4: a resolution given a non-empty namespace and no property theme
\* fails with InvalidUsage, in every composition mode
C4_NamespaceNeedsTheme ==
  ( /\ lastCall.called
    /\ Truthy(lastCall.props.themeNamespace)
    /\ lastCall.props.theme.kind = "undefined" )
  => lastCall.result = Throw("InvalidUsage")

\* C7: below a provider the ancestor theme of a resolution is the entry of
\* the provider's theme under the identifier given to themr; with no
\* provider it is the empty mapping
C7_AncestorIsIdentifierEntry ==
  lastCall.called =>
    AncestorOfCall =
      IF context.themr.kind = "undefined" THEN Obj(EmptyObj)
      ELSE Get(context.themr.theme, lastDecorate.identifier.s)

\* C8: while the instance is mounted the cached theme is the theme resolved
\* from its current props, and an update calls calcTheme exactly when
\* composeTheme, theme (by identity) or themeNamespace changes
C8_CacheFollowsProps ==
  /\ status = "mounted" =>
       Normal(theme_) = calcTheme(props, context, classes[cls].config)
  /\ status # "unmounted" => (recalc <=> changed)

\* after an update that changed a prop: the cache holds the filtered theme
C8_Witness ==
  /\ status = "mounted"
  /\ recalc /\ changed
  /\ props.theme = ObjRef(3, ThemeNs)
  /\ props.themeNamespace = Str(<<"f">>)
  /\ props.composeTheme = COMPOSE_SOFTLY
  /\ StaticOfCall = Undef
  /\ context.themr = Undef
  /\ theme_ = Obj(ThemeSb)

(***************************************************************************)
(* Properties of the decorator (SpecDecorate)                              *)
(***************************************************************************)
\* C10: themr(identifier, localTheme2) applied to the wrapper that
\* themr(identifier, localTheme1) returned gives back that wrapper, creates
\* no second wrapper, and leaves merge(localTheme1, localTheme2) as its
\* static theme
C10_RedecorationIsIdempotent ==
  ( /\ lastDecorate.called
    /\ lastDecorate.Target # 0
    /\ lastDecorate.result.type = "normal"
    /\ classes[lastDecorate.Target].config.identifier = lastDecorate.identifier
    /\ merge(lastDecorate.before, lastDecorate.localTheme).type = "normal" )
  => /\ lastDecorate.result = Normal(lastDecorate.Target)
     /\ Len(classes) = lastDecorate.wrappers
     /\ Normal(classes[lastDecorate.Target].config.localTheme) =
          merge(lastDecorate.before, lastDecorate.localTheme)

====
